---------------------------- MODULE Spec2Model ----------------------------
(***************************************************************************)
(* Model of chattool/request.py: the URL normalizer (is_valid_url,         *)
(* normalize_url) and the API client (chat_completion, valid_models).      *)
(*                                                                         *)
(* A Python str is a sequence of one-character strings.  The standard      *)
(* library functions the module calls (urllib.parse.urlparse / urlunparse, *)
(* str.replace, os.path.join, json.dumps / loads) are written out as       *)
(* operators that compute what CPython 3.11 computes on the characters the *)
(* inputs are drawn from.  Inputs contain no '[' or ']' (urlsplit raises   *)
(* ValueError on a malformed bracketed host) and no whitespace or control  *)
(* characters (urlsplit strips them).                                      *)
(***************************************************************************)
EXTENDS Integers, Sequences, FiniteSets, TLC

VARIABLES
    upc,        \* URL normalizer: "input" -> "normalized" -> "validated"
    url,        \* the caller-supplied URL string
    normalized, \* normalize_url(url)
    valid,      \* is_valid_url(normalized)
    pc,         \* API client: position of the one call in flight
    args,       \* the arguments of the call
    request,    \* the request handed to the transport
    calls,      \* number of transport invocations made by the call
    response,   \* what the transport produced
    outcome     \* how the call ended

urlvars == <<upc, url, normalized, valid>>
clientvars == <<pc, args, request, calls, response, outcome>>
vars == <<upc, url, normalized, valid, pc, args, request, calls, response, outcome>>

(***************************************************************************)
(* Bounds                                                                  *)
(***************************************************************************)
MaxLen == 5       \* longest URL over the narrow alphabet
MaxWideLen == 4   \* longest URL over the wide alphabet
MaxTailLen == 7   \* longest remainder after an explicit scheme

\* delimiters, backslash and the letters of the scheme "ws"
NarrowChars == {"w", "s", ":", "/", "\\", "?", "#"}
\* upper case, a host dot and the params delimiter
WideChars == {"W", "w", "s", ":", "/", ";", "."}
\* what follows an explicit scheme: slashes of both kinds and a host letter
TailChars == {"/", "\\", "w"}
\* a scheme outside uses_netloc, one inside it, one inside uses_params too
SchemePrefixes == {<<"w", ":">>, <<"w", "s", ":">>, <<"h", "t", "t", "p", ":">>}

\* the strings over A of length at most n
StringsOver(A, n) == UNION {[1..k -> A] : k \in 0..n}

(***************************************************************************)
(* Python str primitives                                                   *)
(***************************************************************************)
Min(a, b) == IF a < b THEN a ELSE b

\* s[i:] and s[:i] with 0-based Python slice bounds
From(s, i) == SubSeq(s, i + 1, Len(s))
Upto(s, i) == SubSeq(s, 1, Min(i, Len(s)))

\* str.find(c, start): 0-based index of the first c at or after start, or -1
find(s, c, start) ==
    LET hits == {i \in (start + 1)..Len(s) : s[i] = c}
    IN  IF hits = {} THEN -1
        ELSE (CHOOSE i \in hits : \A j \in hits : i <= j) - 1

\* str.rfind(c): 0-based index of the last c, or -1
rfind(s, c) ==
    LET hits == {i \in 1..Len(s) : s[i] = c}
    IN  IF hits = {} THEN -1
        ELSE (CHOOSE i \in hits : \A j \in hits : i >= j) - 1

contains(s, c) == \E i \in 1..Len(s) : s[i] = c

startswith(s, p) == Len(s) >= Len(p) /\ SubSeq(s, 1, Len(p)) = p

\* "sub in s" for strings
substring(sub, s) ==
    \E i \in 0..(Len(s) - Len(sub)) : SubSeq(s, i + 1, i + Len(sub)) = sub

\* str.replace(old, new): non-overlapping occurrences, left to right, one pass
RECURSIVE str_replace(_, _, _)
str_replace(s, old, new) ==
    IF Len(s) < Len(old) THEN s
    ELSE IF SubSeq(s, 1, Len(old)) = old
         THEN new \o str_replace(From(s, Len(old)), old, new)
         ELSE <<s[1]>> \o str_replace(Tail(s), old, new)

upper_letters == <<"A", "B", "C", "D", "E", "F", "G", "H", "I", "J", "K", "L", "M",
                   "N", "O", "P", "Q", "R", "S", "T", "U", "V", "W", "X", "Y", "Z">>
lower_letters == <<"a", "b", "c", "d", "e", "f", "g", "h", "i", "j", "k", "l", "m",
                   "n", "o", "p", "q", "r", "s", "t", "u", "v", "w", "x", "y", "z">>
digits == <<"0", "1", "2", "3", "4", "5", "6", "7", "8", "9">>

Range(f) == {f[i] : i \in DOMAIN f}

\* str.isascii() and str.isalpha() of one character
isalpha(c) == c \in Range(upper_letters) \cup Range(lower_letters)

\* str.lower()
lower(s) ==
    [i \in 1..Len(s) |->
        IF s[i] \in Range(upper_letters)
        THEN lower_letters[CHOOSE k \in 1..26 : upper_letters[k] = s[i]]
        ELSE s[i]]

(***************************************************************************)
(* urllib.parse                                                            *)
(***************************************************************************)
scheme_chars ==
    Range(lower_letters) \cup Range(upper_letters) \cup Range(digits) \cup {"+", "-", "."}

uses_netloc ==
    {<<>>, <<"f", "t", "p">>, <<"h", "t", "t", "p">>,
     <<"g", "o", "p", "h", "e", "r">>, <<"n", "n", "t", "p">>,
     <<"t", "e", "l", "n", "e", "t">>, <<"i", "m", "a", "p">>,
     <<"w", "a", "i", "s">>, <<"f", "i", "l", "e">>, <<"m", "m", "s">>,
     <<"h", "t", "t", "p", "s">>, <<"s", "h", "t", "t", "p">>,
     <<"s", "n", "e", "w", "s">>,
     <<"p", "r", "o", "s", "p", "e", "r", "o">>, <<"r", "t", "s", "p">>,
     <<"r", "t", "s", "p", "s">>, <<"r", "t", "s", "p", "u">>,
     <<"r", "s", "y", "n", "c">>, <<"s", "v", "n">>,
     <<"s", "v", "n", "+", "s", "s", "h">>, <<"s", "f", "t", "p">>,
     <<"n", "f", "s">>, <<"g", "i", "t">>,
     <<"g", "i", "t", "+", "s", "s", "h">>, <<"w", "s">>, <<"w", "s", "s">>}

uses_params ==
    {<<>>, <<"f", "t", "p">>, <<"h", "d", "l">>,
     <<"p", "r", "o", "s", "p", "e", "r", "o">>, <<"h", "t", "t", "p">>,
     <<"i", "m", "a", "p">>, <<"h", "t", "t", "p", "s">>,
     <<"s", "h", "t", "t", "p">>, <<"r", "t", "s", "p">>,
     <<"r", "t", "s", "p", "s">>, <<"r", "t", "s", "p", "u">>,
     <<"s", "i", "p">>, <<"s", "i", "p", "s">>, <<"m", "m", "s">>,
     <<"s", "f", "t", "p">>, <<"t", "e", "l">>}

\* _splitnetloc(url, start): <<domain, rest>>
splitnetloc(u, start) ==
    LET found == {find(u, c, start) : c \in {"/", "?", "#"}} \ {-1}
        delim == IF found = {} THEN Len(u)
                 ELSE CHOOSE d \in found : \A e \in found : d <= e
    IN  <<SubSeq(u, start + 1, delim), From(u, delim)>>

\* str.split(c, 1) of a string that contains c: <<before, after>>
split_once(s, c) ==
    LET i == find(s, c, 0) IN <<Upto(s, i), From(s, i + 1)>>

\* urlsplit's "if url[:2] == '//': netloc, url = _splitnetloc(url, 2)":
\* <<netloc, rest>>
split_authority(u) ==
    IF Upto(u, 2) = <<"/", "/">> THEN splitnetloc(u, 2) ELSE <<<<>>, u>>

\* urlsplit's "if '#' in url: url, fragment = url.split('#', 1)": <<rest, fragment>>
split_fragment(u) ==
    IF contains(u, "#") THEN split_once(u, "#") ELSE <<u, <<>>>>

\* urlsplit's "if '?' in url: url, query = url.split('?', 1)": <<path, query>>
split_query(u) ==
    IF contains(u, "?") THEN split_once(u, "?") ELSE <<u, <<>>>>

\* urlsplit's scheme test: the 0-based index of the ':' that ends the scheme,
\* or -1 when the URL has no scheme
scheme_end(u) ==
    LET i == find(u, ":", 0)
    IN  IF i > 0 /\ isalpha(u[1]) /\ \A k \in 1..i : u[k] \in scheme_chars
        THEN i ELSE -1

SplitResult(scheme, netloc, pq, fragment) ==
    [scheme |-> scheme, netloc |-> netloc, path |-> pq[1],
     query |-> pq[2], fragment |-> fragment]

\* urlsplit after the scheme and the authority are split off
split_rest(scheme, netloc, rf) ==
    SplitResult(scheme, netloc, split_query(rf[1]), rf[2])

\* urlsplit after the scheme is split off
split_after_scheme(scheme, nr) ==
    split_rest(scheme, nr[1], split_fragment(nr[2]))

\* urlsplit given where the scheme ends
split_at(u, i) ==
    split_after_scheme(IF i > 0 THEN lower(Upto(u, i)) ELSE <<>>,
                       split_authority(IF i > 0 THEN From(u, i + 1) ELSE u))

\* urlsplit(url): scheme, netloc, path, query, fragment
urlsplit(u) == split_at(u, scheme_end(u))

\* _splitparams(url): <<path, params>>
splitparams(u) ==
    LET i == IF contains(u, "/") THEN find(u, ";", rfind(u, "/")) ELSE find(u, ";", 0)
    IN  IF i < 0 THEN <<u, <<>>>> ELSE <<Upto(u, i), From(u, i + 1)>>

\* urlparse's "if scheme in uses_params and ';' in url: url, params = _splitparams(url)"
ParseResult(r, pp) ==
    [scheme |-> r.scheme, netloc |-> r.netloc, path |-> pp[1], params |-> pp[2],
     query |-> r.query, fragment |-> r.fragment]

parse_params(r) ==
    ParseResult(r, IF r.scheme \in uses_params /\ contains(r.path, ";")
                   THEN splitparams(r.path)
                   ELSE <<r.path, <<>>>>)

\* urlparse(url): urlsplit plus the params of the last path segment
urlparse(u) == parse_params(urlsplit(u))

\* urlunsplit's "if netloc or (scheme and scheme in uses_netloc and url[:2] != '//')"
writes_authority(scheme, netloc, path) ==
    netloc # <<>>
        \/ (scheme # <<>> /\ scheme \in uses_netloc /\ Upto(path, 2) # <<"/", "/">>)

\* urlunsplit((scheme, netloc, url, query, fragment))
urlunsplit(scheme, netloc, path, query, fragment) ==
    (IF scheme # <<>> THEN scheme \o <<":">> ELSE <<>>)
        \o (IF writes_authority(scheme, netloc, path)
            THEN <<"/", "/">> \o netloc
                     \o (IF path # <<>> /\ Upto(path, 1) # <<"/">> THEN <<"/">> ELSE <<>>)
            ELSE <<>>)
        \o path
        \o (IF query # <<>> THEN <<"?">> \o query ELSE <<>>)
        \o (IF fragment # <<>> THEN <<"#">> \o fragment ELSE <<>>)

\* urlunparse(parsed)
urlunparse(p) ==
    urlunsplit(p.scheme, p.netloc,
               IF p.params # <<>> THEN p.path \o <<";">> \o p.params ELSE p.path,
               p.query, p.fragment)

(***************************************************************************)
(* URL normalizer                                                          *)
(***************************************************************************)
https == <<"h", "t", "t", "p", "s">>

\* mutant: any() instead of all()
any_of(parsed_url) == parsed_url.scheme # <<>> \/ parsed_url.netloc # <<>>
is_valid_url_any(u) == any_of(urlparse(u))

\* all([parsed_url.scheme, parsed_url.netloc])
all_of(parsed_url) == parsed_url.scheme # <<>> /\ parsed_url.netloc # <<>>

is_valid_url(u) == all_of(urlparse(u))

\* "if not parsed_url.scheme: parsed_url = parsed_url._replace(scheme='https')"
default_scheme(parsed_url) ==
    IF parsed_url.scheme = <<>> THEN [parsed_url EXCEPT !.scheme = https] ELSE parsed_url

\* mutant: the default scheme is http
normalize_url_http(u) ==
    str_replace(
        urlunparse([urlparse(str_replace(u, <<"\\">>, <<"/">>))
                       EXCEPT !.scheme = IF @ = <<>> THEN <<"h", "t", "t", "p">> ELSE @]),
        <<"/", "/", "/">>, <<"/", "/">>)

normalize_url(u) ==
    str_replace(
        urlunparse(default_scheme(urlparse(str_replace(u, <<"\\">>, <<"/">>)))),
        <<"/", "/", "/">>, <<"/", "/">>)

Inputs ==
    StringsOver(NarrowChars, MaxLen)
        \cup StringsOver(WideChars, MaxWideLen)
        \cup {p \o t : p \in SchemePrefixes, t \in StringsOver(TailChars, MaxTailLen)}

InitURL ==
    /\ upc = "input"
    /\ url \in Inputs
    /\ normalized = <<>>
    /\ valid = FALSE
    /\ pc = "idle"
    /\ args = <<>>
    /\ request = <<>>
    /\ calls = 0
    /\ response = <<>>
    /\ outcome = <<>>

\* a caller runs normalize_url on its URL
NormalizeUrl ==
    /\ upc = "input"
    /\ normalized' = normalize_url(url)
    /\ upc' = "normalized"
    /\ UNCHANGED <<url, valid>>
    /\ UNCHANGED clientvars

\* the caller guards the normalized URL with is_valid_url
IsValidUrl ==
    /\ upc = "normalized"
    /\ valid' = is_valid_url(normalized)
    /\ upc' = "validated"
    /\ UNCHANGED <<url, normalized>>
    /\ UNCHANGED clientvars

NextURL == NormalizeUrl \/ IsValidUrl

SpecURL == InitURL /\ [][NextURL]_vars


(***************************************************************************)
(* Python values: str, number, None, list and dict, each tagged with its   *)
(* type.  A dict is the sequence of its <<key, value>> items in insertion  *)
(* order, keys unique.                                                     *)
(***************************************************************************)
PyStr(s) == [t |-> "str", v |-> s]
PyNum(lexeme) == [t |-> "num", v |-> lexeme]
PyList(items) == [t |-> "list", v |-> items]
PyDict(items) == [t |-> "dict", v |-> items]
None == [t |-> "null", v |-> <<>>]

dict_keys(items) == [i \in 1..Len(items) |-> items[i][1]]

has_key(items, k) == \E i \in 1..Len(items) : items[i][1] = k

\* d[k] = val: an existing key keeps its position, a new key goes last
dict_set(items, k, val) ==
    IF has_key(items, k)
    THEN [i \in 1..Len(items) |-> IF items[i][1] = k THEN <<k, val>> ELSE items[i]]
    ELSE Append(items, <<k, val>>)

\* {**d, **more}
RECURSIVE dict_update(_, _)
dict_update(items, more) ==
    IF more = <<>> THEN items
    ELSE dict_update(dict_set(items, more[1][1], more[1][2]), Tail(more))

\* d.get(k), None when the key is missing
dict_get(items, k) ==
    IF has_key(items, k)
    THEN items[CHOOSE i \in 1..Len(items) : items[i][1] = k][2]
    ELSE None

(***************************************************************************)
(* JSON codec: json.dumps writes the text character by character,          *)
(* json.loads is a recursive-descent parser of it.  Strings hold no quote, *)
(* backslash or control character, so no escapes occur.                    *)
(***************************************************************************)
RECURSIVE json_dumps(_)
RECURSIVE dumps_items(_)
RECURSIVE dumps_members(_)

dumps_items(items) ==
    IF items = <<>> THEN <<>>
    ELSE IF Len(items) = 1 THEN json_dumps(items[1])
    ELSE json_dumps(items[1]) \o <<",", " ">> \o dumps_items(Tail(items))

dumps_members(items) ==
    IF items = <<>> THEN <<>>
    ELSE LET member == <<"\"">> \o items[1][1] \o <<"\"", ":", " ">> \o json_dumps(items[1][2])
         IN  IF Len(items) = 1 THEN member
             ELSE member \o <<",", " ">> \o dumps_members(Tail(items))

json_dumps(val) ==
    CASE val.t = "str" -> <<"\"">> \o val.v \o <<"\"">>
      [] val.t = "num" -> val.v
      [] val.t = "null" -> <<"n", "u", "l", "l">>
      [] val.t = "list" -> <<"[">> \o dumps_items(val.v) \o <<"]">>
      [] val.t = "dict" -> <<"{">> \o dumps_members(val.v) \o <<"}">>

RECURSIVE skip_ws(_)
skip_ws(s) == IF s # <<>> /\ s[1] = " " THEN skip_ws(Tail(s)) ELSE s

decode_error == [ok |-> FALSE, val |-> None, rest |-> <<>>]
decoded(val, rest) == [ok |-> TRUE, val |-> val, rest |-> rest]

number_chars == Range(digits) \cup {"-", "."}

\* length of the longest prefix of s made of number characters
RECURSIVE number_len(_)
number_len(s) ==
    IF s # <<>> /\ s[1] \in number_chars THEN 1 + number_len(Tail(s)) ELSE 0

RECURSIVE parse_value(_)
RECURSIVE parse_items(_, _)
RECURSIVE parse_members(_, _)

\* the elements of an array after "[" or ",", up to and including "]"
parse_items(s, acc) ==
    LET r == parse_value(s)
        after == skip_ws(r.rest)
    IN  IF ~r.ok \/ after = <<>> THEN decode_error
        ELSE IF after[1] = "," THEN parse_items(Tail(after), Append(acc, r.val))
        ELSE IF after[1] = "]" THEN decoded(PyList(Append(acc, r.val)), Tail(after))
        ELSE decode_error

\* the members of an object after "{" or ",", up to and including "}"
parse_members(s, acc) ==
    LET k == skip_ws(s)
        close == find(k, "\"", 1)
        colon == skip_ws(From(k, close + 1))
        r == parse_value(Tail(colon))
        after == skip_ws(r.rest)
        items == dict_set(acc, SubSeq(k, 2, close), r.val)
    IN  IF k = <<>> \/ k[1] # "\"" \/ close < 0 THEN decode_error
        ELSE IF colon = <<>> \/ colon[1] # ":" THEN decode_error
        ELSE IF ~r.ok \/ after = <<>> THEN decode_error
        ELSE IF after[1] = "," THEN parse_members(Tail(after), items)
        ELSE IF after[1] = "}" THEN decoded(PyDict(items), Tail(after))
        ELSE decode_error

parse_value(s) ==
    LET w == skip_ws(s)
        close == find(w, "\"", 1)
        inner == skip_ws(Tail(w))
        n == number_len(w)
    IN  IF w = <<>> THEN decode_error
        ELSE IF w[1] = "\""
             THEN IF close < 0 THEN decode_error
                  ELSE decoded(PyStr(SubSeq(w, 2, close)), From(w, close + 1))
        ELSE IF w[1] = "["
             THEN IF inner # <<>> /\ inner[1] = "]" THEN decoded(PyList(<<>>), Tail(inner))
                  ELSE parse_items(inner, <<>>)
        ELSE IF w[1] = "{"
             THEN IF inner # <<>> /\ inner[1] = "}" THEN decoded(PyDict(<<>>), Tail(inner))
                  ELSE parse_members(inner, <<>>)
        ELSE IF n > 0 THEN decoded(PyNum(Upto(w, n)), From(w, n))
        ELSE IF startswith(w, <<"n", "u", "l", "l">>) THEN decoded(None, From(w, 4))
        ELSE decode_error

\* json.loads(text) / response.json(): ok is FALSE where it raises JSONDecodeError
whole_text(r) == IF r.ok /\ skip_ws(r.rest) = <<>> THEN r ELSE decode_error

json_loads(text) == whole_text(parse_value(text))

(***************************************************************************)
(* os.path.join on POSIX for a relative second component                   *)
(***************************************************************************)
path_join(a, b) ==
    IF a = <<>> \/ a[Len(a)] = "/" THEN a \o b ELSE a \o <<"/">> \o b

(***************************************************************************)
(* API client                                                              *)
(***************************************************************************)
MaxTimeout == 2   \* timeouts range over -MaxTimeout..MaxTimeout
MaxBaseLen == 3   \* longest generated base URL of valid_models

OK == 200

ApiKeys == {<<"s", "k", "-", "1">>, <<"k", "2">>}

ChatUrls ==
    {<<"a", "p", "i", ".", "e", "x", "a", "m", "p", "l", "e", ".", "c", "o", "m">>, <<"h", "t", "t", "p", ":", "/", "/", "a", "p", "i", ".", "e", "x", "a", "m", "p", "l", "e", ".", "c", "o", "m">>, <<"h", "t", "t", "p", "s", ":", "/", "/", "a", ".", "b", "/", "v", "1", "\\", "c", "h", "a", "t">>, <<>>}

Models == {<<"g", "p", "t", "-", "4">>, <<"m">>}

UserMessage ==
    PyDict(<< <<<<"r", "o", "l", "e">>, PyStr(<<"u", "s", "e", "r">>)>>, <<<<"c", "o", "n", "t", "e", "n", "t">>, PyStr(<<"h", "i">>)>> >>)
SystemMessage ==
    PyDict(<< <<<<"r", "o", "l", "e">>, PyStr(<<"s", "y", "s", "t", "e", "m">>)>>, <<<<"c", "o", "n", "t", "e", "n", "t">>, PyStr(<<"b", "e", " ", "b", "r", "i", "e", "f">>)>> >>)

MessageLists ==
    {PyList(<<>>), PyList(<<UserMessage>>), PyList(<<SystemMessage, UserMessage>>)}

\* **options: keyword arguments that are not parameters of chat_completion, so
\* never "model", "messages", "api_key", "chat_url" or "timeout"
OptionBags ==
    {<<>>,
     << <<<<"t", "e", "m", "p", "e", "r", "a", "t", "u", "r", "e">>, PyNum(<<"0", ".", "5">>)>> >>,
     << <<<<"n">>, PyNum(<<"2">>)>>, <<<<"s", "t", "o", "p">>, None>> >>,
     << <<<<"u", "s", "e", "r">>, PyStr(<<"u", "1">>)>>, <<<<"s", "t", "o", "p">>, PyList(<<PyStr(<<".">>)>>)>>, <<<<"n">>, PyNum(<<"1">>)>> >>}

Timeouts == (0 - MaxTimeout)..MaxTimeout

BaseChars == {"w", ":", "/", "\\", "?"}

BaseUrls ==
    StringsOver(BaseChars, MaxBaseLen)
        \cup {<<"a", "p", "i", ".", "e", "x", "a", "m", "p", "l", "e", ".", "c", "o", "m">>, <<"h", "t", "t", "p", ":", "/", "/", "a", "p", "i", ".", "e", "x", "a", "m", "p", "l", "e", ".", "c", "o", "m">>, <<"h", "t", "t", "p", ":", "/", "/", "a", "p", "i", ".", "e", "x", "a", "m", "p", "l", "e", ".", "c", "o", "m", "/">>,
              <<"h", "t", "t", "p", "s", ":", "/", "/", "a", ".", "b", "\\">>}

StatusCodes == {OK, 201, 400, 500}

Bodies ==
    {<<"{", "\"", "i", "d", "\"", ":", "\"", "x", "\"", "}">>,
     <<"b", "a", "d", " ", "r", "e", "q", "u", "e", "s", "t">>,
     <<"{", "\"", "d", "a", "t", "a", "\"", ":", "[", "{", "\"", "i", "d", "\"", ":", "\"", "g", "p", "t", "-", "4", "\"", "}", ",", "{", "\"", "i", "d", "\"", ":", "\"", "t", "e", "x", "t", "-", "e", "m", "b", "e", "d", "\"", "}", "]", "}">>,
     <<"{", "\"", "d", "a", "t", "a", "\"", ":", " ", "[", "{", "\"", "i", "d", "\"", ":", " ", "\"", "a", "d", "a", "\"", "}", ",", " ", "{", "\"", "i", "d", "\"", ":", " ", "\"", "c", "h", "a", "t", "g", "p", "t", "\"", "}", ",", " ", "{", "\"", "i", "d", "\"", ":", " ", "\"", "g", "p", "t", "-", "4", "\"", "}", ",", " ", "{", "\"", "i", "d", "\"", ":", " ", "\"", "t", "g", "p", "\"", "}", "]", "}">>,
     <<"{", "\"", "d", "a", "t", "a", "\"", ":", "[", "]", "}">>,
     <<"{", "\"", "d", "a", "t", "a", "\"", ":", "[", "{", "\"", "o", "b", "j", "e", "c", "t", "\"", ":", "\"", "m", "o", "d", "e", "l", "\"", "}", "]", "}">>,
     <<"[", "]">>,
     <<>>}

\* what the transport can raise instead of answering
Faults == {"ConnectionError", "Timeout"}

Returned(val) == [kind |-> "return", exc |-> "", value |-> val]
Raised(exc, detail) == [kind |-> "raise", exc |-> exc, value |-> detail]

kModel == <<"m", "o", "d", "e", "l">>
kMessages == <<"m", "e", "s", "s", "a", "g", "e", "s">>
kData == <<"d", "a", "t", "a">>
kId == <<"i", "d">>
gpt == <<"g", "p", "t">>
ContentType == <<"C", "o", "n", "t", "e", "n", "t", "-", "T", "y", "p", "e">>
ApplicationJson == <<"a", "p", "p", "l", "i", "c", "a", "t", "i", "o", "n", "/", "j", "s", "o", "n">>
Authorization == <<"A", "u", "t", "h", "o", "r", "i", "z", "a", "t", "i", "o", "n">>
Bearer == <<"B", "e", "a", "r", "e", "r", " ">>
v1_models == <<"v", "1", "/", "m", "o", "d", "e", "l", "s">>

\* mutant: the options are left out of the payload
chat_payload_bare(model, messages, options) ==
    PyDict(<< <<kModel, PyStr(model)>>, <<kMessages, messages>> >>)

\* payload = {"model": model, "messages": messages, **options}
chat_payload(model, messages, options) ==
    PyDict(dict_update(<< <<kModel, PyStr(model)>>, <<kMessages, messages>> >>, options))

chat_headers(api_key) ==
    << <<ContentType, ApplicationJson>>, <<Authorization, Bearer \o api_key>> >>

\* mutant: "if timeout < 0"
chat_timeout_lt(timeout) == IF timeout < 0 THEN <<>> ELSE <<timeout>>

\* if timeout <= 0: timeout = None      (None is <<>>, a value t is <<t>>)
chat_timeout(timeout) == IF timeout <= 0 THEN <<>> ELSE <<timeout>>

\* return response.json()
json_result(parsed) ==
    IF parsed.ok THEN Returned(parsed.val) ELSE Raised("JSONDecodeError", None)

\* the statements of chat_completion after requests.post returned
\* mutant: every status below 300 counts as success
chat_result_2xx(resp) ==
    IF resp.status_code >= 300 THEN Raised("Exception", PyStr(resp.text))
    ELSE json_result(json_loads(resp.text))

chat_result(resp) ==
    IF resp.status_code # OK THEN Raised("Exception", PyStr(resp.text))
    ELSE json_result(json_loads(resp.text))

models_headers(api_key) ==
    << <<Authorization, Bearer \o api_key>>, <<ContentType, ApplicationJson>> >>

\* mutant: the path is appended after normalizing
models_url_appended(base_url) == normalize_url(base_url) \o <<"/">> \o v1_models

\* models_url = normalize_url(os.path.join(base_url, "v1/models"))
models_url(base_url) == normalize_url(path_join(base_url, v1_models))

\* what "for model in x" iterates over (x a list, dict or str)
iterate(x) ==
    CASE x.t = "list" -> x.v
      [] x.t = "dict" -> [i \in 1..Len(x.v) |-> PyStr(x.v[i][1])]
      [] x.t = "str" -> [i \in 1..Len(x.v) |-> PyStr(<<x.v[i]>>)]

\* "gpt" in x, for x a str, list or dict
gpt_in(x) ==
    CASE x.t = "str" -> substring(gpt, x.v)
      [] x.t = "list" -> \E i \in 1..Len(x.v) : x.v[i].t = "str" /\ x.v[i].v = gpt
      [] x.t = "dict" -> has_key(x.v, gpt)

RECURSIVE select_seq(_, _)
select_seq(s, keep) ==
    IF s = <<>> THEN <<>>
    ELSE IF keep[1] THEN <<s[1]>> \o select_seq(Tail(s), Tail(keep))
    ELSE select_seq(Tail(s), Tail(keep))

\* mutant: the filter is not applied
filter_models_all(model_list, gpt_only) == Returned(PyList(model_list))

\* [model for model in model_list if "gpt" in model] if gpt_only else model_list
filter_models(model_list, gpt_only) ==
    IF ~gpt_only THEN Returned(PyList(model_list))
    ELSE IF \E i \in 1..Len(model_list) : model_list[i].t \in {"null", "num"}
         THEN Raised("TypeError", None)
    ELSE Returned(PyList(select_seq(model_list,
                                    [i \in 1..Len(model_list) |-> gpt_in(model_list[i])])))

\* model_list = [model.get("id") for model in entries]
list_ids(entries, gpt_only) ==
    IF \E i \in 1..Len(entries) : entries[i].t # "dict" THEN Raised("AttributeError", None)
    ELSE filter_models([i \in 1..Len(entries) |-> dict_get(entries[i].v, kId)], gpt_only)

\* ... for model in data.get("data")
list_entries(listing, gpt_only) ==
    IF listing.t \in {"null", "num"} THEN Raised("TypeError", None)
    ELSE list_ids(iterate(listing), gpt_only)

\* data = models_response.json() and what follows it
list_models(parsed, gpt_only) ==
    IF ~parsed.ok THEN Raised("JSONDecodeError", None)
    ELSE IF parsed.val.t # "dict" THEN Raised("AttributeError", None)
    ELSE list_entries(dict_get(parsed.val.v, kData), gpt_only)

\* the statements of valid_models after requests.get returned
models_result(resp, gpt_only) ==
    IF resp.status_code = OK THEN list_models(json_loads(resp.text), gpt_only)
    ELSE Raised("Exception", PyStr(resp.text))

Init ==
    /\ pc = "idle"
    /\ args = <<>>
    /\ request = <<>>
    /\ calls = 0
    /\ response = <<>>
    /\ outcome = <<>>
    /\ upc = "input"
    /\ url = <<>>
    /\ normalized = <<>>
    /\ valid = FALSE

\* chat_completion up to and including the call of requests.post
ChatCompletionSend ==
    /\ pc = "idle"
    /\ \E api_key \in ApiKeys, chat_url \in ChatUrls, messages \in MessageLists,
          model \in Models, timeout \in Timeouts, options \in OptionBags :
        /\ args' = [op |-> "chat_completion", api_key |-> api_key, url |-> chat_url,
                    messages |-> messages, model |-> model, timeout |-> timeout,
                    options |-> options, gpt_only |-> FALSE]
        /\ request' = [method |-> "POST",
                       url |-> normalize_url(chat_url),
                       headers |-> chat_headers(api_key),
                       data |-> json_dumps(chat_payload(model, messages, options)),
                       timeout |-> chat_timeout(timeout)]
    /\ calls' = calls + 1
    /\ pc' = "chat_wait"
    /\ UNCHANGED <<response, outcome>>
    /\ UNCHANGED urlvars

\* mutant: a non-200 answer is retried
ChatCompletionReceiveRetry ==
    /\ pc = "chat_wait"
    /\ \E status \in StatusCodes, text \in Bodies :
        /\ response' = [raised |-> "", status_code |-> status, text |-> text]
        /\ IF status # OK /\ calls < 3
           THEN calls' = calls + 1 /\ pc' = "chat_wait" /\ UNCHANGED outcome
           ELSE /\ outcome' = chat_result([status_code |-> status, text |-> text])
                /\ pc' = "done"
                /\ UNCHANGED calls
    /\ UNCHANGED <<args, request>>
    /\ UNCHANGED urlvars

\* requests.post returns a response and chat_completion runs to its end
ChatCompletionReceive ==
    /\ pc = "chat_wait"
    /\ \E status \in StatusCodes, text \in Bodies :
        /\ response' = [raised |-> "", status_code |-> status, text |-> text]
        /\ outcome' = chat_result([status_code |-> status, text |-> text])
    /\ pc' = "done"
    /\ UNCHANGED <<args, request, calls>>
    /\ UNCHANGED urlvars

\* requests.post raises; nothing in chat_completion catches it.  The transport
\* can time out only when it was given a timeout.
ChatCompletionFault ==
    /\ pc = "chat_wait"
    /\ \E exc \in Faults :
        /\ exc = "Timeout" => request.timeout # <<>>
        /\ response' = [raised |-> exc, status_code |-> 0, text |-> <<>>]
        /\ outcome' = Raised(exc, None)
    /\ pc' = "done"
    /\ UNCHANGED <<args, request, calls>>
    /\ UNCHANGED urlvars

\* valid_models up to and including the call of requests.get
ValidModelsSend ==
    /\ pc = "idle"
    /\ \E api_key \in ApiKeys, base_url \in BaseUrls, gpt_only \in BOOLEAN :
        /\ args' = [op |-> "valid_models", api_key |-> api_key, url |-> base_url,
                    messages |-> None, model |-> <<>>, timeout |-> 0,
                    options |-> <<>>, gpt_only |-> gpt_only]
        /\ request' = [method |-> "GET",
                       url |-> models_url(base_url),
                       headers |-> models_headers(api_key),
                       data |-> <<>>,
                       timeout |-> <<>>]
    /\ calls' = calls + 1
    /\ pc' = "models_wait"
    /\ UNCHANGED <<response, outcome>>
    /\ UNCHANGED urlvars

\* requests.get returns a response and valid_models runs to its end
ValidModelsReceive ==
    /\ pc = "models_wait"
    /\ \E status \in StatusCodes, text \in Bodies :
        /\ response' = [raised |-> "", status_code |-> status, text |-> text]
        /\ outcome' = models_result([status_code |-> status, text |-> text], args.gpt_only)
    /\ pc' = "done"
    /\ UNCHANGED <<args, request, calls>>
    /\ UNCHANGED urlvars

\* requests.get raises; nothing in valid_models catches it
ValidModelsFault ==
    /\ pc = "models_wait"
    /\ \E exc \in Faults :
        /\ exc = "Timeout" => request.timeout # <<>>
        /\ response' = [raised |-> exc, status_code |-> 0, text |-> <<>>]
        /\ outcome' = Raised(exc, None)
    /\ pc' = "done"
    /\ UNCHANGED <<args, request, calls>>
    /\ UNCHANGED urlvars

Next ==
    \/ ChatCompletionSend
    \/ ChatCompletionReceive
    \/ ChatCompletionFault
    \/ ValidModelsSend
    \/ ValidModelsReceive
    \/ ValidModelsFault

Spec == Init /\ [][Next]_vars

(***************************************************************************)
(* Properties of the URL normalizer (under SpecURL)                        *)
(***************************************************************************)
triple_slash == <<"/", "/", "/">>

\* the input parses with a scheme of its own
has_scheme(u) == urlparse(u).scheme # <<>>

\* no delimiter of the URL introduces an empty component, which urlunparse drops
no_empty_part(u) ==
    LET p == urlparse(u)
    IN  /\ contains(u, "?") => p.query # <<>>
        /\ contains(u, "#") => p.fragment # <<>>
        /\ (contains(u, ";") /\ p.scheme \in uses_params) => p.params # <<>>

\* nothing for the normalizer to rewrite
plain(u) ==
    /\ ~contains(u, "\\")
    /\ ~substring(triple_slash, u)
    /\ no_empty_part(u)

\* C1: for every URL with an explicit scheme, normalizing the normalized URL
\* gives the normalized URL again.
C1_Idempotent ==
    (upc # "input" /\ has_scheme(url)) => normalize_url(normalized) = normalized

\* C2 as claimed: a schemeless input s comes back as "https://" + s and an
\* input with a scheme comes back unchanged.
C2_Original ==
    upc # "input" =>
        /\ ~has_scheme(url) => normalized = https \o <<":", "/", "/">> \o url
        /\ has_scheme(url) => normalized = url

\* C2 amended: the result carries https exactly when the input has no scheme
\* and the input's lower-cased scheme otherwise; a schemeless input that has
\* no backslash, no "///", no empty params/query/fragment and no leading slash
\* comes back as "https://" + input; an input with a lower-case scheme and a
\* host, no backslash, no "///" and no empty component comes back unchanged.
C2_SchemeDefault ==
    upc # "input" =>
        LET p == urlparse(url)
            s == IF p.scheme = <<>> THEN https ELSE p.scheme
        IN  /\ startswith(normalized, s \o <<":">>)
            /\ urlparse(normalized).scheme = s
            /\ (p.scheme = <<>> /\ plain(url) /\ Upto(url, 1) # <<"/">>)
                   => normalized = https \o <<":", "/", "/">> \o url
            /\ (p.scheme # <<>> /\ plain(url) /\ p.netloc # <<>> /\ startswith(url, p.scheme))
                   => normalized = url

C2_Witness ==
    /\ upc = "normalized"
    /\ url = <<"w", ".", "s">>
    /\ normalized = <<"h", "t", "t", "p", "s", ":", "/", "/", "w", ".", "s">>

\* C3 as claimed: the normalized URL always passes is_valid_url.
C3_Original == upc = "validated" => valid

\* C3 amended: the normalized URL always parses with a scheme, and it passes
\* is_valid_url exactly when it also has a network location.
C3_SchemeQualified ==
    upc = "validated" =>
        /\ urlparse(normalized).scheme # <<>>
        /\ valid <=> urlparse(normalized).netloc # <<>>

C3_Witness ==
    /\ upc = "validated"
    /\ url = <<"w", "s", ":">>
    /\ normalized = <<"w", "s", ":", "/", "/">>
    /\ ~valid

\* C4: the normalized URL contains no "///" and no backslash.
C4_NoTripleSlash ==
    upc # "input" => ~substring(triple_slash, normalized) /\ ~contains(normalized, "\\")

(***************************************************************************)
(* Properties of the API client (under Spec)                               *)
(***************************************************************************)
\* the request has just been handed to the transport
chat_called == pc = "chat_wait"
models_called == pc = "models_wait"
chat_answered == pc = "done" /\ args.op = "chat_completion" /\ response.raised = ""
models_answered == pc = "done" /\ args.op = "valid_models" /\ response.raised = ""

\* the call failed with Exception(text)
failed_with(text) ==
    /\ outcome.kind = "raise"
    /\ outcome.exc = "Exception"
    /\ outcome.value.t = "str"
    /\ outcome.value.v = text

has_header(name, val) ==
    \E i \in 1..Len(request.headers) : request.headers[i] = <<name, val>>

\* C5: on status 200 chat_completion returns the parsed JSON body; on every
\* other status it returns nothing and fails with the raw body text as detail.
C5_StatusMapping ==
    chat_answered =>
        IF response.status_code = 200
        THEN json_loads(response.text).ok =>
                 /\ outcome.kind = "return"
                 /\ outcome.value = json_loads(response.text).val
        ELSE failed_with(response.text)

C5_Witness ==
    /\ chat_answered
    /\ response.status_code = 400
    /\ response.text = <<"b", "a", "d", " ", "r", "e", "q", "u", "e", "s", "t">>
    /\ failed_with(<<"b", "a", "d", " ", "r", "e", "q", "u", "e", "s", "t">>)

\* C6: the POST never carries a zero or negative timeout: a timeout argument
\* <= 0 is sent as no timeout, a positive one is sent as it is.
C6_Timeout ==
    chat_called =>
        /\ args.timeout <= 0 => request.timeout = <<>>
        /\ args.timeout > 0 => request.timeout = <<args.timeout>>
        /\ \A i \in 1..Len(request.timeout) : request.timeout[i] > 0

C6_Witness ==
    /\ chat_called
    /\ args.timeout = 0
    /\ request.method = "POST"
    /\ request.timeout = <<>>

\* the body is a JSON object with a "data" list of objects with string ids
listing_of(text) == dict_get(json_loads(text).val.v, kData)

well_formed_listing(text) ==
    /\ json_loads(text).ok
    /\ json_loads(text).val.t = "dict"
    /\ listing_of(text).t = "list"
    /\ \A i \in 1..Len(listing_of(text).v) :
           /\ listing_of(text).v[i].t = "dict"
           /\ dict_get(listing_of(text).v[i].v, kId).t = "str"

ids_of(text) ==
    [i \in 1..Len(listing_of(text).v) |-> dict_get(listing_of(text).v[i].v, kId)]

names_gpt(id) == substring(gpt, id.v)

\* C7: on status 200 valid_models returns the ids of the "data" entries in the
\* server's order, all of them or (gpt_only) those containing "gpt"; on any
\* other status it returns nothing and fails with the raw body text.
C7_ValidModels ==
    models_answered =>
        IF response.status_code = 200
        THEN well_formed_listing(response.text) =>
                 /\ outcome.kind = "return"
                 /\ outcome.value.t = "list"
                 /\ outcome.value.v = IF args.gpt_only
                                      THEN SelectSeq(ids_of(response.text), names_gpt)
                                      ELSE ids_of(response.text)
        ELSE failed_with(response.text)

C7_Witness ==
    /\ models_answered
    /\ args.gpt_only
    /\ response.status_code = 200
    /\ response.text = <<"{", "\"", "d", "a", "t", "a", "\"", ":", "[", "{", "\"", "i", "d", "\"", ":", "\"", "g", "p", "t", "-", "4", "\"", "}", ",", "{", "\"", "i", "d", "\"", ":", "\"", "t", "e", "x", "t", "-", "e", "m", "b", "e", "d", "\"", "}", "]", "}">>
    /\ outcome = Returned(PyList(<<PyStr(<<"g", "p", "t", "-", "4">>)>>))

\* C8: every invocation makes exactly one transport call, to the normalized
\* URL, and ends with the transport's outcome, whatever it is: no second call,
\* and a transport fault is what the caller gets.
C8_OneCall ==
    [][/\ (pc = "idle" /\ pc' # "idle") =>
              /\ calls' = 1
              /\ request'.url = normalize_url(IF args'.op = "chat_completion"
                                              THEN args'.url
                                              ELSE path_join(args'.url, v1_models))
       /\ pc \in {"chat_wait", "models_wait"} =>
              /\ pc' = "done"
              /\ calls' = 1
              /\ request' = request
              /\ response'.raised # "" =>
                     outcome'.kind = "raise" /\ outcome'.exc = response'.raised
       /\ pc = "done" => pc' = "done" /\ calls' = calls]_vars

C8_Witness ==
    /\ pc = "done"
    /\ calls = 1
    /\ response.raised = "ConnectionError"
    /\ outcome.kind = "raise"
    /\ outcome.exc = "ConnectionError"

sent_body == json_loads(request.data)

\* C9: the body sent by chat_completion is a JSON object whose keys are
\* "model", "messages" and the option keys, no others, each with the caller's
\* value; the request carries Content-Type and Authorization: Bearer headers.
C9_Payload ==
    chat_called =>
        /\ sent_body.ok
        /\ sent_body.val.t = "dict"
        /\ Len(sent_body.val.v) = 2 + Len(args.options)
        /\ Range(dict_keys(sent_body.val.v))
               = {kModel, kMessages} \cup Range(dict_keys(args.options))
        /\ dict_get(sent_body.val.v, kModel) = PyStr(args.model)
        /\ dict_get(sent_body.val.v, kMessages) = args.messages
        /\ \A i \in 1..Len(args.options) :
               dict_get(sent_body.val.v, args.options[i][1]) = args.options[i][2]
        /\ has_header(ContentType, ApplicationJson)
        /\ has_header(Authorization, Bearer \o args.api_key)

C9_Witness ==
    /\ chat_called
    /\ Len(args.options) = 3
    /\ Len(args.messages.v) = 2
    /\ Len(sent_body.val.v) = 5

\* C10 as claimed: the GET goes to normalize_url(base_url) + "/v1/models".
C10_Original ==
    models_called =>
        /\ request.url = normalize_url(args.url) \o <<"/">> \o v1_models
        /\ has_header(Authorization, Bearer \o args.api_key)

\* a base URL with nothing for the join or the normalizer to absorb
plain_base(b) ==
    /\ b # <<>>
    /\ b[Len(b)] \notin {"/", "\\", ":"}
    /\ ~contains(b, "?") /\ ~contains(b, "#") /\ ~contains(b, ";")

\* C10 amended: the GET goes to normalize_url of base_url joined with
\* "v1/models" (a "/" is inserted unless base_url is empty or ends in "/");
\* that is normalize_url(base_url) + "/v1/models" when base_url is non-empty,
\* does not end in "/", "\" or ":" and has no "?", "#" or ";".  The request
\* carries the Authorization: Bearer header.
C10_ModelsUrl ==
    models_called =>
        /\ request.method = "GET"
        /\ request.url =
               normalize_url(IF args.url = <<>> \/ args.url[Len(args.url)] = "/"
                             THEN args.url \o v1_models
                             ELSE args.url \o <<"/">> \o v1_models)
        /\ plain_base(args.url) =>
               request.url = normalize_url(args.url) \o <<"/">> \o v1_models
        /\ has_header(Authorization, Bearer \o args.api_key)

C10_Witness ==
    /\ models_called
    /\ args.url = <<"h", "t", "t", "p", ":", "/", "/", "a", "p", "i", ".", "e", "x", "a", "m", "p", "l", "e", ".", "c", "o", "m", "/">>
    /\ request.url = <<"h", "t", "t", "p", ":", "/", "/", "a", "p", "i", ".", "e", "x", "a", "m", "p", "l", "e", ".", "c", "o", "m", "/", "v", "1", "/", "m", "o", "d", "e", "l", "s">>

=============================================================================
